---- MODULE Spec2Model ----
(***************************************************************************)
(* Meal-plan tool adapters of mealie-mcp-server                            *)
(* (src/src/tools/mealplan_tools.py, register_mealplan_tools).             *)
(*                                                                         *)
(* Four tools are registered: get_all_mealplans, create_mealplan,          *)
(* create_mealplan_bulk and get_todays_mealplan.  Each one logs an info    *)
(* record, calls the backend fetcher (`mealie`), serialises the result     *)
(* with json.dumps and, on any Exception, logs an error record and a debug *)
(* record and returns format_error_response(error_msg).                    *)
(*                                                                         *)
(* One invocation runs at a time (synchronous tools); `pc` is the position *)
(* of the running invocation inside the tool's body.                       *)
(***************************************************************************)
EXTENDS Integers, Sequences, FiniteSets, TLC

(***************************************************************************)
(* Bounds of the model.                                                    *)
(***************************************************************************)
\* longest `entries` list handed to create_mealplan_bulk
MaxEntries == 3
\* number of entries the backend store holds before the model stops
\* starting invocations that could add more
MaxStore == 3

(***************************************************************************)
(* Python values.  A value is a record tagged with its Python type.        *)
(* A dict is the sequence of its <<key, value>> items in insertion order.  *)
(***************************************************************************)
PyNone == [t |-> "NoneType"]
PyStr(s) == [t |-> "str", s |-> s]
PyInt(n) == [t |-> "int", n |-> n]
PyList(items) == [t |-> "list", items |-> items]
PyTuple(items) == [t |-> "tuple", items |-> items]
PyDict(pairs) == [t |-> "dict", pairs |-> pairs]
\* an object json does not know how to encode
PySet == [t |-> "set"]

(***************************************************************************)
(* json.dumps.  JSON text is the sequence of its tokens                     *)
(* (whitespace between tokens is not modelled).                            *)
(***************************************************************************)
Punct(c) == [k |-> "punct", s |-> c]
StrTok(s) == [k |-> "string", s |-> s]
NumTok(n) == [k |-> "number", n |-> n]
LitTok(s) == [k |-> "literal", s |-> s]

\* json.dumps accepts str, int and None as dict keys and turns them into strings
KeyEncodable(key) == key.t \in {"str", "int", "NoneType"}

EncodeKey(key) ==
    CASE key.t = "str" -> StrTok(key.s)
      [] key.t = "int" -> StrTok(ToString(key.n))
      [] key.t = "NoneType" -> StrTok("null")

RECURSIVE JSONSerializable(_)
JSONSerializable(o) ==
    CASE o.t \in {"NoneType", "str", "int"} -> TRUE
      [] o.t \in {"list", "tuple"} ->
            \A j \in 1..Len(o.items) : JSONSerializable(o.items[j])
      [] o.t = "dict" ->
            \A j \in 1..Len(o.pairs) :
                KeyEncodable(o.pairs[j][1]) /\ JSONSerializable(o.pairs[j][2])
      [] OTHER -> FALSE

RECURSIVE json_dumps(_)
RECURSIVE EncodeItems(_, _)
RECURSIVE EncodePairs(_, _)

\* the elements items[j..] of an array, separated by commas
EncodeItems(items, j) ==
    IF j > Len(items) THEN <<>>
    ELSE (IF j > 1 THEN <<Punct(",")>> ELSE <<>>)
         \o json_dumps(items[j]) \o EncodeItems(items, j + 1)

\* the members pairs[j..] of an object, separated by commas
EncodePairs(pairs, j) ==
    IF j > Len(pairs) THEN <<>>
    ELSE (IF j > 1 THEN <<Punct(",")>> ELSE <<>>)
         \o <<EncodeKey(pairs[j][1]), Punct(":")>>
         \o json_dumps(pairs[j][2]) \o EncodePairs(pairs, j + 1)

\* json.dumps(o) for a serialisable o
json_dumps(o) ==
    CASE o.t = "NoneType" -> <<LitTok("null")>>
      [] o.t = "str" -> <<StrTok(o.s)>>
      [] o.t = "int" -> <<NumTok(o.n)>>
      [] o.t \in {"list", "tuple"} ->
            <<Punct("[")>> \o EncodeItems(o.items, 1) \o <<Punct("]")>>
      [] o.t = "dict" ->
            <<Punct("{")>> \o EncodePairs(o.pairs, 1) \o <<Punct("}")>>

\* str(e) of the TypeError json.dumps raises: the first object, in encoding
\* order, that it cannot encode
RECURSIVE json_dumps_error_msg(_)
json_dumps_error_msg(o) ==
    CASE o.t \in {"list", "tuple"} ->
            LET bad == {j \in 1..Len(o.items) : ~JSONSerializable(o.items[j])}
                j == CHOOSE m \in bad : \A n \in bad : m <= n
            IN json_dumps_error_msg(o.items[j])
      [] o.t = "dict" ->
            LET bad == {j \in 1..Len(o.pairs) :
                          ~(KeyEncodable(o.pairs[j][1])
                            /\ JSONSerializable(o.pairs[j][2]))}
                j == CHOOSE m \in bad : \A n \in bad : m <= n
            IN IF ~KeyEncodable(o.pairs[j][1])
               THEN "keys must be str, int, float, bool or None, not "
                    \o o.pairs[j][1].t
               ELSE json_dumps_error_msg(o.pairs[j][2])
      [] OTHER -> "Object of type " \o o.t \o " is not JSON serializable"

json_dumps_error(o) == [cls |-> "TypeError", msg |-> json_dumps_error_msg(o)]

(***************************************************************************)
(* The caller's side: json.loads of the text a tool returned.              *)
(***************************************************************************)
\* d[key] = value on a dict's item sequence: overwrite in place or append
DictSet(pairs, key, value) ==
    IF \E j \in 1..Len(pairs) : pairs[j][1] = key
    THEN [j \in 1..Len(pairs) |->
             IF pairs[j][1] = key THEN <<key, value>> ELSE pairs[j]]
    ELSE Append(pairs, <<key, value>>)

RECURSIVE ParseValue(_)
RECURSIVE ParseItems(_, _)
RECURSIVE ParseMembers(_, _)

\* the elements of an array up to its "]"; toks starts at an element
ParseItems(toks, acc) ==
    LET r == ParseValue(toks)
        items == Append(acc, r.val)
    IN IF Head(r.rest) = Punct(",")
       THEN ParseItems(Tail(r.rest), items)
       ELSE [val |-> PyList(items), rest |-> Tail(r.rest)]

\* the members of an object up to its "}"; toks starts at a key
ParseMembers(toks, acc) ==
    LET key == PyStr(toks[1].s)
        r == ParseValue(Tail(Tail(toks)))
        pairs == DictSet(acc, key, r.val)
    IN IF Head(r.rest) = Punct(",")
       THEN ParseMembers(Tail(r.rest), pairs)
       ELSE [val |-> PyDict(pairs), rest |-> Tail(r.rest)]

\* one JSON value at the head of toks, and the tokens after it
ParseValue(toks) ==
    LET h == Head(toks)
    IN CASE h.k = "literal" -> [val |-> PyNone, rest |-> Tail(toks)]
         [] h.k = "string" -> [val |-> PyStr(h.s), rest |-> Tail(toks)]
         [] h.k = "number" -> [val |-> PyInt(h.n), rest |-> Tail(toks)]
         [] h = Punct("[") ->
               IF toks[2] = Punct("]")
               THEN [val |-> PyList(<<>>), rest |-> Tail(Tail(toks))]
               ELSE ParseItems(Tail(toks), <<>>)
         [] h = Punct("{") ->
               IF toks[2] = Punct("}")
               THEN [val |-> PyDict(<<>>), rest |-> Tail(Tail(toks))]
               ELSE ParseMembers(Tail(toks), <<>>)

\* json.loads(text), as the caller of a tool parses the returned payload
json_loads(text) == ParseValue(text).val

\* the parsed payload is an object with an "error" member
HasErrorField(text) ==
    LET v == json_loads(text)
    IN v.t = "dict" /\ \E j \in 1..Len(v.pairs) : v.pairs[j][1] = PyStr("error")

(***************************************************************************)
(* Collaborators that live outside tools/mealplan_tools.py.                *)
(***************************************************************************)
\* utils.format_error_response(error_message): the uniform error envelope
format_error_response(error_message) ==
    json_dumps(PyDict(<< <<PyStr("error"), PyStr(error_message)>> >>))

\* models.mealplan.MealPlanEntry.model_dump(): the entry's fields as a dict
model_dump(e) ==
    PyDict(<< <<PyStr("date"), e.date>>,
              <<PyStr("recipe_id"), e.recipe_id>>,
              <<PyStr("title"), e.title>>,
              <<PyStr("entry_type"), e.entry_type>> >>)

\* MealPlanEntry objects a caller hands in: one with every field, one
\* freeform, one with only the title absent
EntryA ==
    [date |-> PyStr("2024-03-01"), recipe_id |-> PyStr("r1"),
     title |-> PyStr("Pasta"), entry_type |-> PyStr("dinner")]
EntryB ==
    [date |-> PyStr("2024-03-02"), recipe_id |-> PyNone,
     title |-> PyNone, entry_type |-> PyStr("lunch")]
EntryC ==
    [date |-> PyStr("2024-03-03"), recipe_id |-> PyStr("r2"),
     title |-> PyNone, entry_type |-> PyStr("side")]
Entries == {EntryA, EntryB, EntryC}

\* lists of at most n entries
EntryLists(n) == UNION {[1..m -> Entries] : m \in 0..n}

\* optional arguments of get_all_mealplans
Dates == {PyNone, PyStr("2024-03-01")}
Pages == {PyNone, PyInt(2)}

\* structures the backend fetcher hands back: mappings and sequences, JSON
\* native or not
ResultPage ==
    PyDict(<< <<PyStr("items"), PyList(<<PyDict(<< <<PyStr("title"), PyStr("Pasta")>> >>)>>)>>,
              <<PyStr("page"), PyInt(1)>> >>)
ResultList == PyList(<<PyDict(<< <<PyStr("id"), PyInt(7)>> >>)>>)
ResultErrorKey == PyDict(<< <<PyStr("error"), PyStr("recipe missing")>> >>)
ResultIntKey == PyDict(<< <<PyInt(1), PyStr("monday")>> >>)
ResultTuple == PyTuple(<<PyInt(1)>>)
ResultSet == PyDict(<< <<PyStr("items"), PySet>> >>)
BackendResults ==
    {ResultPage, ResultList, ResultErrorKey, ResultIntKey, ResultTuple, ResultSet}

\* exceptions the backend fetcher raises; all derive from Exception
BackendFailures ==
    {[cls |-> "HTTPError", msg |-> "404 Not Found"],
     [cls |-> "ConnectionError", msg |-> "connection refused"]}
ExceptionClasses == {"HTTPError", "ConnectionError", "TypeError"}

\* what the backend's create operation may return: the created record
\* (an echo of its arguments) or any other structure
CreateResults(kwargs) == {kwargs} \cup BackendResults

\* str(e)
str(e) == e.msg

\* traceback.format_exc() while e is being handled
format_exc(e) ==
    "Traceback (most recent call last): " \o e.cls \o ": " \o e.msg

(***************************************************************************)
(* State.                                                                  *)
(***************************************************************************)
VARIABLES
    pc,         \* position of the running invocation; "idle" between invocations
    tool,       \* the tool last invoked
    params,     \* get_all_mealplans: start_date, end_date, page, per_page
    entry,      \* create_mealplan: its entry argument
    entries,    \* create_mealplan_bulk: its entries argument
    idx,        \* create_mealplan_bulk: index of the entry the loop is at
    result,     \* the local `result`
    exc,        \* the exception in flight / bound to `e`
    error_msg,  \* the local `error_msg`
    outcome,    \* "running", "returned" or "raised" (what the caller saw)
    ret,        \* the text returned to the caller
    log,        \* records emitted on logger "mealie-mcp" by this invocation
    calls,      \* calls the backend fetcher received from this invocation
    store,      \* entries the backend holds
    store0      \* the backend's entries when this invocation started

vars == <<pc, tool, params, entry, entries, idx, result, exc, error_msg,
          outcome, ret, log, calls, store, store0>>

NoParams ==
    [start_date |-> PyNone, end_date |-> PyNone, page |-> PyNone, per_page |-> PyNone]
NoEntry ==
    [date |-> PyNone, recipe_id |-> PyNone, title |-> PyNone, entry_type |-> PyNone]
NoExc == [cls |-> "", msg |-> ""]

LogRecord(level, record) == [level |-> level, record |-> record]
Call(name, kwargs, how, raised) ==
    [name |-> name, kwargs |-> kwargs, outcome |-> how, raised |-> raised]

Init ==
    /\ pc = "idle"
    /\ tool = "none"
    /\ params = NoParams
    /\ entry = NoEntry
    /\ entries = <<>>
    /\ idx = 0
    /\ result = PyNone
    /\ exc = NoExc
    /\ error_msg = ""
    /\ outcome = "returned"
    /\ ret = <<>>
    /\ log = <<>>
    /\ calls = <<>>
    /\ store = <<>>
    /\ store0 = <<>>

(***************************************************************************)
(* Steps shared by the four tools.                                         *)
(***************************************************************************)
\* a tool is entered: its arguments are bound and logger.info(record) runs
Enter(t, p, e, es, record, next) ==
    /\ pc = "idle"
    /\ tool' = t
    /\ params' = p
    /\ entry' = e
    /\ entries' = es
    /\ idx' = 1
    /\ result' = PyNone
    /\ exc' = NoExc
    /\ error_msg' = ""
    /\ outcome' = "running"
    /\ ret' = <<>>
    /\ log' = <<LogRecord("info", record)>>
    /\ calls' = <<>>
    /\ store0' = store
    /\ pc' = next
    /\ UNCHANGED store

\* variant: the clause names only the transport errors of the HTTP client
CatchesTransportErrors(e) == e.cls \in {"HTTPError", "ConnectionError"}

\* `except Exception as e` matches the exception in flight
Catches(e) == e.cls \in ExceptionClasses

\* return json.dumps(result); a TypeError of json.dumps is raised into the
\* enclosing try
ReturnDumps(t) ==
    /\ pc = "dumps" /\ tool = t
    /\ IF JSONSerializable(result)
       THEN /\ ret' = json_dumps(result)
            /\ outcome' = "returned"
            /\ pc' = "idle"
            /\ UNCHANGED exc
       ELSE /\ exc' = json_dumps_error(result)
            /\ pc' = "except"
            /\ UNCHANGED <<ret, outcome>>
    /\ UNCHANGED <<tool, params, entry, entries, idx, result, error_msg,
                   log, calls, store, store0>>

\* except Exception as e: error_msg = f"Error <doing>: {str(e)}";
\* logger.error({"message": error_msg}).  An exception the clause does not
\* match leaves the tool.
ExceptLogError(t, doing) ==
    /\ pc = "except" /\ tool = t
    /\ IF Catches(exc)
       THEN /\ error_msg' = "Error " \o doing \o ": " \o str(exc)
            /\ log' = Append(log,
                  LogRecord("error", PyDict(<< <<PyStr("message"), PyStr(error_msg')>> >>)))
            /\ pc' = "debug"
            /\ UNCHANGED outcome
       ELSE /\ outcome' = "raised"
            /\ pc' = "idle"
            /\ UNCHANGED <<error_msg, log>>
    /\ UNCHANGED <<tool, params, entry, entries, idx, result, exc, ret,
                   calls, store, store0>>

\* variant: the traceback record goes out through logger.error
LogDebugAsError(t) ==
    /\ pc = "debug" /\ tool = t
    /\ log' = Append(log,
          LogRecord("error", PyDict(<< <<PyStr("message"), PyStr("Error traceback")>>,
                                       <<PyStr("traceback"), PyStr(format_exc(exc))>> >>)))
    /\ pc' = "format"
    /\ UNCHANGED <<tool, params, entry, entries, idx, result, exc, error_msg,
                   outcome, ret, calls, store, store0>>

\* logger.debug({"message": "Error traceback", "traceback": traceback.format_exc()})
LogDebug(t) ==
    /\ pc = "debug" /\ tool = t
    /\ log' = Append(log,
          LogRecord("debug", PyDict(<< <<PyStr("message"), PyStr("Error traceback")>>,
                                       <<PyStr("traceback"), PyStr(format_exc(exc))>> >>)))
    /\ pc' = "format"
    /\ UNCHANGED <<tool, params, entry, entries, idx, result, exc, error_msg,
                   outcome, ret, calls, store, store0>>

\* variant: the message itself is serialised instead of the envelope
ReturnErrorPlain(t) ==
    /\ pc = "format" /\ tool = t
    /\ ret' = json_dumps(PyStr(error_msg))
    /\ outcome' = "returned"
    /\ pc' = "idle"
    /\ UNCHANGED <<tool, params, entry, entries, idx, result, exc, error_msg,
                   log, calls, store, store0>>

\* return format_error_response(error_msg)
ReturnError(t) ==
    /\ pc = "format" /\ tool = t
    /\ ret' = format_error_response(error_msg)
    /\ outcome' = "returned"
    /\ pc' = "idle"
    /\ UNCHANGED <<tool, params, entry, entries, idx, result, exc, error_msg,
                   log, calls, store, store0>>

(***************************************************************************)
(* The backend fetcher `mealie` as the tools see it: every call is         *)
(* recorded, and either returns a structure or raises.  A create that      *)
(* returns has stored the entry; a create that raises has stored nothing.  *)
(***************************************************************************)
BackendReturns(name, kwargs) ==
    /\ calls' = Append(calls, Call(name, kwargs, "returned", NoExc))
    /\ store' = IF name = "create_mealplan" THEN Append(store, kwargs) ELSE store
    /\ UNCHANGED exc

BackendRaises(name, kwargs, f) ==
    /\ calls' = Append(calls, Call(name, kwargs, "raised", f))
    /\ exc' = f
    /\ UNCHANGED store

(***************************************************************************)
(* get_all_mealplans(start_date, end_date, page, per_page)                 *)
(***************************************************************************)
get_all_mealplans_enter ==
    \E sd \in Dates, ed \in Dates, pg \in Pages, pp \in Pages :
        Enter("get_all_mealplans",
              [start_date |-> sd, end_date |-> ed, page |-> pg, per_page |-> pp],
              NoEntry, <<>>,
              PyDict(<< <<PyStr("message"), PyStr("Fetching mealplans")>>,
                        <<PyStr("start_date"), sd>>,
                        <<PyStr("end_date"), ed>>,
                        <<PyStr("page"), pg>>,
                        <<PyStr("per_page"), pp>> >>),
              "call")

\* the keyword arguments of mealie.get_mealplans(...)
get_mealplans_kwargs(p) ==
    PyDict(<< <<PyStr("start_date"), p.start_date>>,
              <<PyStr("end_date"), p.end_date>>,
              <<PyStr("page"), p.page>>,
              <<PyStr("per_page"), p.per_page>> >>)

get_all_mealplans_call ==
    /\ pc = "call" /\ tool = "get_all_mealplans"
    /\ \/ \E r \in BackendResults :
            /\ BackendReturns("get_mealplans", get_mealplans_kwargs(params))
            /\ result' = r
            /\ pc' = "dumps"
       \/ \E f \in BackendFailures :
            /\ BackendRaises("get_mealplans", get_mealplans_kwargs(params), f)
            /\ pc' = "except"
            /\ UNCHANGED result
    /\ UNCHANGED <<tool, params, entry, entries, idx, error_msg, outcome, ret,
                   log, store0>>

\* variant: the result is wrapped before it is serialised
get_all_mealplans_return_wrapped ==
    /\ pc = "dumps" /\ tool = "get_all_mealplans"
    /\ IF JSONSerializable(result)
       THEN /\ ret' = json_dumps(PyDict(<< <<PyStr("data"), result>> >>))
            /\ outcome' = "returned"
            /\ pc' = "idle"
            /\ UNCHANGED exc
       ELSE /\ exc' = json_dumps_error(result)
            /\ pc' = "except"
            /\ UNCHANGED <<ret, outcome>>
    /\ UNCHANGED <<tool, params, entry, entries, idx, result, error_msg,
                   log, calls, store, store0>>

get_all_mealplans_return == ReturnDumps("get_all_mealplans")
get_all_mealplans_except == ExceptLogError("get_all_mealplans", "fetching mealplans")
get_all_mealplans_debug == LogDebug("get_all_mealplans")
get_all_mealplans_error == ReturnError("get_all_mealplans")

(***************************************************************************)
(* create_mealplan(entry)                                                  *)
(***************************************************************************)
create_mealplan_enter ==
    \E e \in Entries :
        /\ Len(store) < MaxStore
        /\ Enter("create_mealplan", NoParams, e, <<>>,
                 PyDict(<< <<PyStr("message"), PyStr("Creating mealplan entry")>>,
                           <<PyStr("entry"), model_dump(e)>> >>),
                 "call")

\* variant: absent optional fields are sent as empty strings
EmptyForNone(d) ==
    PyDict([j \in 1..Len(d.pairs) |->
              <<d.pairs[j][1],
                IF d.pairs[j][2] = PyNone THEN PyStr("") ELSE d.pairs[j][2]>>])

create_mealplan_call_coerced ==
    /\ pc = "call" /\ tool = "create_mealplan"
    /\ \/ \E r \in CreateResults(model_dump(entry)) :
            /\ BackendReturns("create_mealplan", EmptyForNone(model_dump(entry)))
            /\ result' = r
            /\ pc' = "dumps"
       \/ \E f \in BackendFailures :
            /\ BackendRaises("create_mealplan", EmptyForNone(model_dump(entry)), f)
            /\ pc' = "except"
            /\ UNCHANGED result
    /\ UNCHANGED <<tool, params, entry, entries, idx, error_msg, outcome, ret,
                   log, store0>>

\* result = mealie.create_mealplan(**entry.model_dump())
create_mealplan_call ==
    /\ pc = "call" /\ tool = "create_mealplan"
    /\ \/ \E r \in CreateResults(model_dump(entry)) :
            /\ BackendReturns("create_mealplan", model_dump(entry))
            /\ result' = r
            /\ pc' = "dumps"
       \/ \E f \in BackendFailures :
            /\ BackendRaises("create_mealplan", model_dump(entry), f)
            /\ pc' = "except"
            /\ UNCHANGED result
    /\ UNCHANGED <<tool, params, entry, entries, idx, error_msg, outcome, ret,
                   log, store0>>

create_mealplan_return == ReturnDumps("create_mealplan")
create_mealplan_except == ExceptLogError("create_mealplan", "creating mealplan entry")
create_mealplan_debug == LogDebug("create_mealplan")
create_mealplan_error == ReturnError("create_mealplan")

(***************************************************************************)
(* create_mealplan_bulk(entries)                                           *)
(***************************************************************************)
create_mealplan_bulk_enter ==
    \E es \in EntryLists(MaxEntries) :
        /\ Len(store) + Len(es) <= MaxStore
        /\ Enter("create_mealplan_bulk", NoParams, NoEntry, es,
                 PyDict(<< <<PyStr("message"), PyStr("Creating bulk mealplan entries")>>,
                           <<PyStr("entries_count"), PyInt(Len(es))>> >>),
                 "loop")

\* variant: a failing create is remembered and the loop goes on to the
\* remaining entries
create_mealplan_bulk_create_isolated ==
    /\ pc = "loop" /\ tool = "create_mealplan_bulk"
    /\ idx <= Len(entries)
    /\ \/ \E r \in CreateResults(model_dump(entries[idx])) :
            /\ BackendReturns("create_mealplan", model_dump(entries[idx]))
            /\ idx' = idx + 1
            /\ pc' = IF idx = Len(entries) /\ exc # NoExc THEN "except" ELSE "loop"
       \/ \E f \in BackendFailures :
            /\ BackendRaises("create_mealplan", model_dump(entries[idx]), f)
            /\ idx' = idx + 1
            /\ pc' = IF idx = Len(entries) THEN "except" ELSE "loop"
    /\ UNCHANGED <<tool, params, entry, entries, result, error_msg, outcome,
                   ret, log, store0>>

\* for entry in entries: mealie.create_mealplan(**entry.model_dump())
create_mealplan_bulk_create ==
    /\ pc = "loop" /\ tool = "create_mealplan_bulk"
    /\ idx <= Len(entries)
    /\ \/ \E r \in CreateResults(model_dump(entries[idx])) :
            /\ BackendReturns("create_mealplan", model_dump(entries[idx]))
            /\ idx' = idx + 1
            /\ pc' = "loop"
       \/ \E f \in BackendFailures :
            /\ BackendRaises("create_mealplan", model_dump(entries[idx]), f)
            /\ pc' = "except"
            /\ UNCHANGED idx
    /\ UNCHANGED <<tool, params, entry, entries, result, error_msg, outcome,
                   ret, log, store0>>

\* the acknowledgement of a bulk creation that went through
BulkAck ==
    PyDict(<< <<PyStr("message"), PyStr("Bulk mealplan entries created successfully")>> >>)

\* variant: the loop stops one entry short
create_mealplan_bulk_return_early ==
    /\ pc = "loop" /\ tool = "create_mealplan_bulk"
    /\ idx >= Len(entries)
    /\ ret' = json_dumps(BulkAck)
    /\ outcome' = "returned"
    /\ pc' = "idle"
    /\ UNCHANGED <<tool, params, entry, entries, idx, result, exc, error_msg,
                   log, calls, store, store0>>

\* the loop is exhausted: return json.dumps({"message": ...})
create_mealplan_bulk_return ==
    /\ pc = "loop" /\ tool = "create_mealplan_bulk"
    /\ idx > Len(entries)
    /\ ret' = json_dumps(BulkAck)
    /\ outcome' = "returned"
    /\ pc' = "idle"
    /\ UNCHANGED <<tool, params, entry, entries, idx, result, exc, error_msg,
                   log, calls, store, store0>>

\* variant: the phrase of create_mealplan is reused
create_mealplan_bulk_except_copied ==
    ExceptLogError("create_mealplan_bulk", "creating mealplan entry")

create_mealplan_bulk_except ==
    ExceptLogError("create_mealplan_bulk", "creating bulk mealplan entries")
create_mealplan_bulk_debug == LogDebug("create_mealplan_bulk")
\* variant: the entries created so far are deleted again before returning
create_mealplan_bulk_error_rollback ==
    /\ pc = "format" /\ tool = "create_mealplan_bulk"
    /\ ret' = format_error_response(error_msg)
    /\ outcome' = "returned"
    /\ pc' = "idle"
    /\ store' = store0
    /\ calls' = calls \o [j \in 1..(Len(store) - Len(store0)) |->
                            Call("delete_mealplan", store[Len(store0) + j],
                                 "returned", NoExc)]
    /\ UNCHANGED <<tool, params, entry, entries, idx, result, exc, error_msg,
                   log, store0>>

create_mealplan_bulk_error == ReturnError("create_mealplan_bulk")

(***************************************************************************)
(* get_todays_mealplan()                                                   *)
(***************************************************************************)
get_todays_mealplan_enter ==
    Enter("get_todays_mealplan", NoParams, NoEntry, <<>>,
          PyDict(<< <<PyStr("message"), PyStr("Fetching today's mealplan")>> >>),
          "call")

\* result = mealie.get_todays_mealplan()
get_todays_mealplan_call ==
    /\ pc = "call" /\ tool = "get_todays_mealplan"
    /\ \/ \E r \in BackendResults :
            /\ BackendReturns("get_todays_mealplan", PyDict(<<>>))
            /\ result' = r
            /\ pc' = "dumps"
       \/ \E f \in BackendFailures :
            /\ BackendRaises("get_todays_mealplan", PyDict(<<>>), f)
            /\ pc' = "except"
            /\ UNCHANGED result
    /\ UNCHANGED <<tool, params, entry, entries, idx, error_msg, outcome, ret,
                   log, store0>>

get_todays_mealplan_return == ReturnDumps("get_todays_mealplan")
\* variant: a failed fetch is tried once more
get_todays_mealplan_except_retry ==
    /\ pc = "except" /\ tool = "get_todays_mealplan"
    /\ IF Len(calls) = 1 /\ calls[1].outcome = "raised"
       THEN /\ pc' = "call"
            /\ exc' = NoExc
            /\ UNCHANGED <<tool, params, entry, entries, idx, result, error_msg,
                           outcome, ret, log, calls, store, store0>>
       ELSE ExceptLogError("get_todays_mealplan", "fetching today's mealplan")

get_todays_mealplan_except ==
    ExceptLogError("get_todays_mealplan", "fetching today's mealplan")
get_todays_mealplan_debug == LogDebug("get_todays_mealplan")
get_todays_mealplan_error == ReturnError("get_todays_mealplan")

(***************************************************************************)
(* The adapter set.                                                        *)
(***************************************************************************)
Next ==
    \/ get_all_mealplans_enter
    \/ get_all_mealplans_call
    \/ get_all_mealplans_return
    \/ get_all_mealplans_except
    \/ get_all_mealplans_debug
    \/ get_all_mealplans_error
    \/ create_mealplan_enter
    \/ create_mealplan_call
    \/ create_mealplan_return
    \/ create_mealplan_except
    \/ create_mealplan_debug
    \/ create_mealplan_error
    \/ create_mealplan_bulk_enter
    \/ create_mealplan_bulk_create
    \/ create_mealplan_bulk_return
    \/ create_mealplan_bulk_except
    \/ create_mealplan_bulk_debug
    \/ create_mealplan_bulk_error
    \/ get_todays_mealplan_enter
    \/ get_todays_mealplan_call
    \/ get_todays_mealplan_return
    \/ get_todays_mealplan_except
    \/ get_todays_mealplan_debug
    \/ get_todays_mealplan_error

Spec == Init /\ [][Next]_vars

(***************************************************************************)
(* Properties.                                                             *)
(***************************************************************************)
\* an invocation has run to its end
Finished == pc = "idle" /\ tool # "none"
\* something was raised inside the try block of the invocation
Failed == exc # NoExc
\* the levels of the records logged by the invocation, in order
Levels == [j \in 1..Len(log) |-> log[j].level]
\* the keyword arguments that carry every field of entry e unchanged
FieldsOf(e) ==
    PyDict(<< <<PyStr("date"), e.date>>, <<PyStr("recipe_id"), e.recipe_id>>,
              <<PyStr("title"), e.title>>, <<PyStr("entry_type"), e.entry_type>> >>)
\* a structure json represents without loss: None, str, int, lists, and
\* dicts whose keys are strings
RECURSIVE JSONNative(_)
JSONNative(o) ==
    CASE o.t \in {"NoneType", "str", "int"} -> TRUE
      [] o.t = "list" -> \A j \in 1..Len(o.items) : JSONNative(o.items[j])
      [] o.t = "dict" ->
            \A j \in 1..Len(o.pairs) :
                o.pairs[j][1].t = "str" /\ JSONNative(o.pairs[j][2])
      [] OTHER -> FALSE
\* a mapping that has a key json writes as "error"
CarriesErrorKey(o) ==
    o.t = "dict" /\ \E j \in 1..Len(o.pairs) : o.pairs[j][1] = PyStr("error")

\* C1: in each of the four tools, whenever something is raised during the
\* invocation (by the backend call or by json.dumps of its result), the
\* invocation ends by returning a payload that parses to an object with an
\* "error" member, and no invocation ever ends by raising to the caller.
C1_FailureReturnsEnvelope ==
    /\ outcome # "raised"
    /\ (Finished /\ Failed) => (outcome = "returned" /\ HasErrorField(ret))

\* a serialisation failure of a fetched result ended in the envelope
C1_Witness ==
    /\ Finished /\ tool = "get_all_mealplans"
    /\ exc.cls = "TypeError"
    /\ calls # <<>> /\ calls[1].outcome = "returned"
    /\ HasErrorField(ret)

\* C2: when a create fails during create_mealplan_bulk, the backend has
\* received one returning create per entry before the failing one, in list
\* order, then the failing create, and nothing for the entries after it; the
\* tool returns the error envelope and not the acknowledgement.
C2_BulkStopsAtFirstFailure ==
    (Finished /\ tool = "create_mealplan_bulk" /\ Failed) =>
        LET k == Len(calls)
        IN /\ 1 <= k /\ k <= Len(entries)
           /\ \A j \in 1..(k - 1) :
                 calls[j] = Call("create_mealplan", FieldsOf(entries[j]), "returned", NoExc)
           /\ calls[k] = Call("create_mealplan", FieldsOf(entries[k]), "raised", exc)
           /\ HasErrorField(ret)
           /\ json_loads(ret) # BulkAck

\* [A, B, C] with the create of B failing
C2_Witness ==
    /\ Finished /\ tool = "create_mealplan_bulk" /\ Failed
    /\ entries = <<EntryA, EntryB, EntryC>>
    /\ Len(calls) = 2

\* C3: when create_mealplan_bulk ends in a failure, the backend holds what it
\* held when the invocation started plus the entries created before the
\* failing one, and the backend was asked for nothing but creates.
C3_BulkFailureKeepsPrefix ==
    (Finished /\ tool = "create_mealplan_bulk" /\ Failed) =>
        /\ store = store0 \o [j \in 1..(Len(calls) - 1) |-> FieldsOf(entries[j])]
        /\ \A j \in 1..Len(calls) : calls[j].name = "create_mealplan"

\* one entry was created before the second create failed, on a backend that
\* already held an entry
C3_Witness ==
    /\ Finished /\ tool = "create_mealplan_bulk" /\ Failed
    /\ Len(calls) = 2
    /\ store0 # <<>>
    /\ store = Append(store0, FieldsOf(entries[1]))

C5_ErrorFieldIffFailed ==
    Finished => (HasErrorField(ret) <=> Failed)

\* C5, amended: a failed invocation returns a payload with an "error" member;
\* an invocation that did not fail returns one exactly when the tool
\* serialises the backend's structure and that structure is itself a mapping
\* with an "error" key.
C5_ErrorFieldIffFailedOrPassedThrough ==
    Finished =>
        /\ Failed => HasErrorField(ret)
        /\ ~Failed =>
              (HasErrorField(ret) <=>
                  (tool # "create_mealplan_bulk" /\ CarriesErrorKey(result)))

\* a backend mapping with an "error" key was passed through as a success
C5_Witness ==
    /\ Finished /\ ~Failed
    /\ tool = "get_todays_mealplan"
    /\ result = ResultErrorKey
    /\ HasErrorField(ret)

\* C6: create_mealplan makes one backend create call whose keyword arguments
\* are the four fields of its entry, each unchanged and None where the entry
\* has None; when nothing fails it returns the serialisation of what the
\* backend returned (for a backend that echoes its arguments, text that
\* parses to the entry's fields); the entry is not changed while the
\* invocation runs.
C6_CreateForwardsEntry ==
    /\ [](tool = "create_mealplan" =>
            /\ Len(calls) <= 1
            /\ (pc \notin {"call"}) => Len(calls) = 1
            /\ \A j \in 1..Len(calls) :
                  /\ calls[j].name = "create_mealplan"
                  /\ calls[j].kwargs = FieldsOf(entry)
            /\ (Finished /\ ~Failed) =>
                  /\ outcome = "returned"
                  /\ ret = json_dumps(result)
                  /\ (result = FieldsOf(entry) => json_loads(ret) = FieldsOf(entry)))
    /\ [][pc # "idle" => entry' = entry]_vars

\* the freeform entry was created on a backend that echoes its arguments
C6_Witness ==
    /\ Finished /\ tool = "create_mealplan" /\ ~Failed
    /\ entry = EntryB
    /\ calls[1].kwargs.pairs[2] = <<PyStr("recipe_id"), PyNone>>
    /\ result = FieldsOf(EntryB)

\* the four arguments of get_all_mealplans reached the backend's list
\* operation as they were given
ListForwardsVerbatim ==
    \A j \in 1..Len(calls) :
        /\ calls[j].name = "get_mealplans"
        /\ calls[j].kwargs =
              PyDict(<< <<PyStr("start_date"), params.start_date>>,
                        <<PyStr("end_date"), params.end_date>>,
                        <<PyStr("page"), params.page>>,
                        <<PyStr("per_page"), params.per_page>> >>)

C8_LogOrder ==
    /\ [](tool # "none" =>
            /\ Len(log) >= 1 /\ log[1].level = "info"
            /\ \A j \in 2..Len(log) : log[j].level # "info"
            /\ (Finished /\ Failed) =>
                  /\ Levels = <<"info", "error", "debug">>
                  /\ log[2].record = PyDict(<< <<PyStr("message"), PyStr(error_msg)>> >>)
                  /\ \E j \in 1..Len(log[3].record.pairs) :
                        /\ log[3].record.pairs[j][1] = PyStr("traceback")
                        /\ log[3].record.pairs[j][2] = PyStr(format_exc(exc))
            /\ ~Failed => Levels = <<"info">>)
    /\ [][(Len(calls') > Len(calls)) => (Len(log) >= 1 /\ log[1].level = "info")]_vars
    /\ [][(outcome = "running" /\ outcome' = "returned" /\ Failed) =>
              (Levels = <<"info", "error", "debug">> /\ log' = log)]_vars

\* a failed create_mealplan has logged its three records
C8_Witness ==
    /\ Finished /\ Failed /\ tool = "create_mealplan"
    /\ Len(log) = 3

\* the phrase each tool puts into its error message
Doing(t) ==
    CASE t = "get_all_mealplans" -> "fetching mealplans"
      [] t = "create_mealplan" -> "creating mealplan entry"
      [] t = "create_mealplan_bulk" -> "creating bulk mealplan entries"
      [] t = "get_todays_mealplan" -> "fetching today's mealplan"

\* the text of the failure the invocation ran into: what the last backend
\* call raised, or else what json.dumps raised on the result
UnderlyingMessage ==
    IF calls # <<>> /\ calls[Len(calls)].outcome = "raised"
    THEN calls[Len(calls)].raised.msg
    ELSE json_dumps_error_msg(result)

\* C9: on failure the message logged at error level and handed to
\* format_error_response (whose return value is what the tool returns) is "Error <doing>: <underlying message>", <doing>
\* fixed per tool and <underlying message> the text of the caught failure;
\* a bulk failure gives one such message, for the first failing create.
C9_ErrorMessage ==
    (Finished /\ Failed) =>
        /\ error_msg = "Error " \o Doing(tool) \o ": " \o UnderlyingMessage
        /\ Cardinality({j \in 1..Len(log) : log[j].level = "error"}) = 1
        /\ log[2].record = PyDict(<< <<PyStr("message"), PyStr(error_msg)>> >>)
        /\ ret = format_error_response(error_msg)

\* the second create of a bulk invocation failed with an HTTP error
C9_Witness ==
    /\ Finished /\ Failed /\ tool = "create_mealplan_bulk"
    /\ Len(calls) = 2
    /\ error_msg = "Error creating bulk mealplan entries: 404 Not Found"

\* C10: no tool retries: get_all_mealplans, create_mealplan and
\* get_todays_mealplan make at most one backend call (get_mealplans,
\* create_mealplan and get_todays_mealplan, the last without arguments),
\* create_mealplan_bulk at most one create per entry, no call follows a call
\* that raised, and the calls of an invocation are those its own arguments
\* ask for, whatever ran before it.
C10_NoRetry ==
    /\ tool \in {"get_all_mealplans", "create_mealplan", "get_todays_mealplan"}
          => Len(calls) <= 1
    /\ tool = "create_mealplan_bulk" => Len(calls) <= Len(entries)
    /\ \A j \in 1..Len(calls) :
          /\ calls[j].outcome = "raised" => j = Len(calls)
          /\ tool = "get_all_mealplans" => calls[j].name = "get_mealplans"
          /\ tool = "create_mealplan" =>
                (calls[j].name = "create_mealplan" /\ calls[j].kwargs = FieldsOf(entry))
          /\ tool = "create_mealplan_bulk" =>
                (calls[j].name = "create_mealplan"
                 /\ calls[j].kwargs = FieldsOf(entries[j]))
          /\ tool = "get_todays_mealplan" =>
                (calls[j].name = "get_todays_mealplan"
                 /\ calls[j].kwargs = PyDict(<<>>))

\* a fetch of today's plan failed after an earlier invocation had created
\* entries, and the backend was called once
C10_Witness ==
    /\ Finished /\ Failed /\ tool = "get_todays_mealplan"
    /\ store0 # <<>>
    /\ Len(calls) = 1 /\ calls[1].outcome = "raised"

====
